---- MODULE Spec2Model ----
(***************************************************************************)
(* Model of the Redis-backed training queue: the API handlers create_job   *)
(* and cancel_job (backend/main.py) and the worker loop                    *)
(* process_pending_jobs with its inline runner run_training_job            *)
(* (backend/worker.py).  Every Redis command and every Docker engine call  *)
(* is one atomic step; the code between two such calls is local to the     *)
(* process and is folded into the step that follows it.  The API handlers  *)
(* are coroutines with no await between their Redis calls, so one API      *)
(* process runs one handler at a time; the workers are separate processes  *)
(* and interleave with it and with each other at every step.               *)
(*                                                                         *)
(* The module also models the log stream of the API (stream_job_logs)      *)
(* against the runner's writes to output.log, and the SQL-backed           *)
(* implementation under backend/app: the handlers of app/main.py and the   *)
(* JobScheduler of app/services/job_scheduler.py, run by two processes.    *)
(***************************************************************************)
EXTENDS Naturals, Sequences, FiniteSets, TLC

\* ------------------------------------------------------------------ bounds
\* NumJobs ids and NumResources registry keys exist; each specification bounds
\* the jobs it submits and the resources they request.
NumJobs      == 3
NumWorkers   == 2
NumResources == 2

\* Spec: the API submits at most SpecJobs jobs, all for the resources
\* 1 .. SpecResources, so that every job contends for the same lease.
SpecJobs      == 2
SpecResources == 1

JobIds    == 1 .. NumJobs
Workers   == 1 .. NumWorkers
Resources == 1 .. NumResources

\* Exit codes a training container can end with by itself, and the code the
\* engine reports for a container ended by stop().
ExitCodes  == {0, 2}
KilledCode == 137

VARIABLES
    job,            \* job:<id>        -> record, or NoJob while the key is absent
    queue,          \* queue:pending   -> list, index 1 is the left (LPUSH) end
    resource,       \* resource:<r>    -> holding job id, None while absent
    container,      \* container:<id>  -> container id, None while absent
    docker,         \* the engine's container named ml-job-<id>
    api,            \* the API process: the handler in progress and its locals
    pc,             \* worker: position in process_pending_jobs / run_training_job
    docker_client,  \* worker: the module global docker_client
    job_id,         \* worker: local job_id
    job_data,       \* worker: local job_data
    current_job,    \* worker: current_job as read by the finally clause (406-408)
    result,         \* worker: StatusCode returned by container.wait()
    cancel_from,    \* history: status each accepted cancel_job call read
    runs,           \* history: run_training_job invocations per job
    output_log,     \* jobs/<id>/output.log -> number of bytes written so far
    stream,         \* the API's log_generator of stream_job_logs and its output
    rows,           \* SQL: table jobs, one row per job
    gpu_queue,      \* SQL: queue:gpu:<id> -> list, index 1 is the left (LPOP) end
    running_jobs,   \* SQL: each JobScheduler's running_jobs map {gpu_id: job_id}
    sched,          \* SQL: each JobScheduler's position in process_queues
    task,           \* SQL: the start_job task of each job
    engine,         \* SQL: the engine's container named job-<id>
    handler,        \* SQL: the API handler in progress and its locals
    loop,           \* SQL: the coroutine each process's event loop is running
    sql_cancel_from \* SQL history: status each cancel_job call read

logVars == << output_log, stream >>
sqlVars == << rows, gpu_queue, running_jobs, sched, task, engine, handler, loop,
              sql_cancel_from >>

vars == << job, queue, resource, container, docker, api, pc, docker_client,
           job_id, job_data, current_job, result, cancel_from, runs, logVars,
           sqlVars >>

storeVars  == << job, queue, resource, container >>
workerVars == << pc, docker_client, job_id, job_data, current_job, result >>

None == 0

\* ------------------------------------------------------------ job records
NoJob ==
    [status |-> "absent", resource |-> None, started_at |-> "None",
     completed_at |-> "None", error |-> "None"]

NewJob(res) ==
    [status |-> "pending", resource |-> res, started_at |-> "None",
     completed_at |-> "None", error |-> "None"]

\* Mutant: the error text does not carry the exit code.
ExitError_no_code(code) == "Container exited with code 0"

ExitError(code) ==
    IF code = 2 THEN "Container exited with code 2"
    ELSE IF code = KilledCode THEN "Container exited with code 137"
    ELSE "Container exited with code 0"

\* docker[j]: the container ml-job-<j>; code is the exit code it ended with,
\* which stays on record after the container is removed.
NoContainer == [state |-> "none", code |-> 0]
Removed(c)  == [state |-> "removed", code |-> c]

\* ------------------------------------------------------- queue:pending ops
\* Mutant: the submit inserts at the end the worker pops from.
lpush_at_pop_end(q, x) == Append(q, x)

lpush(q, x) == << x >> \o q
rpush(q, x) == Append(q, x)
rpop_value(q) == q[Len(q)]
rpop_rest(q)  == SubSeq(q, 1, Len(q) - 1)
lrem(q, x)    == SelectSeq(q, LAMBDA y : y # x)

InQueue(j) == \E i \in 1 .. Len(queue) : queue[i] = j

\* ------------------------------------------------------- resource registry
check_resource_available(r) == resource[r] = None

acquire_resource(r, j) == [resource EXCEPT ![r] = j]

\* Mutant: the release leaves the key in place.
release_resource_kept(r) == resource

\* Mutant: the release flips the key, so a second release sets it again.
release_resource_flips(r) ==
    [resource EXCEPT ![r] = IF @ = None THEN 1 ELSE None]

release_resource(r) == [resource EXCEPT ![r] = None]

\* ------------------------------------------------------------- log stream
\* The bytes of output.log are numbered from 1; the stream's output is the
\* list of the numbers of the bytes it has emitted, in order.
\* Sizes, in bytes of the model, of the header written at lines 205-209 and
\* of the error text appended at lines 396-400 of worker.py.
LogHeader    == 1
LogErrorText == 1

ClosedStream ==
    [pc |-> "closed", job_id |-> None, last_size |-> 0, current_size |-> 0,
     emitted |-> << >>]

InitLogs ==
    /\ output_log = [j \in JobIds |-> 0]
    /\ stream = ClosedStream

\* ------------------------------------------------- SQL-backed implementation
\* backend/app: the table jobs, the per-GPU Redis queues, and two processes
\* that each run a JobScheduler: the API process (app/main.py line 71) and the
\* training_worker process (workers/training_worker.py lines 9-11).  The table
\* gpus has NumGpus rows; with one row the loop of process_queues (line 57)
\* has one iteration per call.
NumGpus    == 1
Gpus       == 1 .. NumGpus
Schedulers == {"api", "worker"}

NoRow ==
    [status |-> "absent", gpu_id |-> None, container_id |-> "None",
     completed_at |-> "None", error_log |-> "None"]

\* Lines 217-224 of app/main.py: Job(name, user_id, gpu_id, status="pending")
NewRow(gpu) ==
    [status |-> "pending", gpu_id |-> gpu, container_id |-> "None",
     completed_at |-> "None", error_log |-> "None"]

NoTask == [pc |-> "none", owner |-> "none", gpu |-> None, result |-> "none"]

IdleHandler == [pc |-> "idle", job_id |-> None]

\* The coroutines of a process.  One event loop runs them: a coroutine keeps
\* the loop from one suspending await (Redis, asyncio.sleep) to the next.
Free        == [kind |-> "free", job |-> None]
HandlerCo   == [kind |-> "handler", job |-> None]
TaskCo(j)   == [kind |-> "start_job", job |-> j]

InitSql ==
    /\ rows = [j \in JobIds |-> NoRow]
    /\ gpu_queue = [g \in Gpus |-> << >>]
    /\ running_jobs = [s \in Schedulers |-> [g \in Gpus |-> None]]
    /\ sched = [s \in Schedulers |-> "check"]
    /\ task = [j \in JobIds |-> NoTask]
    /\ engine = [j \in JobIds |-> NoContainer]
    /\ handler = IdleHandler
    /\ loop = [s \in Schedulers |-> Free]
    /\ sql_cancel_from = [j \in JobIds |-> "none"]

\* -------------------------------------------------------------------- Init
IdleApi == [pc |-> "idle", job_id |-> None, job |-> NoJob]

Init ==
    /\ job = [j \in JobIds |-> NoJob]
    /\ queue = << >>
    /\ resource = [r \in Resources |-> None]
    /\ container = [j \in JobIds |-> None]
    /\ docker = [j \in JobIds |-> NoContainer]
    /\ api = IdleApi
    /\ pc = [w \in Workers |-> "start"]
    /\ docker_client = [w \in Workers |-> "None"]
    /\ job_id = [w \in Workers |-> None]
    /\ job_data = [w \in Workers |-> NoJob]
    /\ current_job = [w \in Workers |-> NoJob]
    /\ result = [w \in Workers |-> 0]
    /\ cancel_from = [j \in JobIds |-> "none"]
    /\ runs = [j \in JobIds |-> 0]
    /\ InitLogs
    /\ InitSql

\* ------------------------------------------------------------- API: create
\* uuid4 gives an id no record has yet; the ids are handed out in order.
FreshId == CHOOSE j \in JobIds : job[j] = NoJob /\ \A k \in 1 .. (j - 1) : job[k] # NoJob

\* Mutant: the id is handed to the push without the record being written.
create_job_set_no_record(res) ==
    /\ api.pc = "idle"
    /\ \E j \in JobIds : job[j] = NoJob
    /\ api' = [pc |-> "create_push", job_id |-> FreshId, job |-> NoJob]
    /\ UNCHANGED << storeVars, docker, workerVars, cancel_from >>
    /\ UNCHANGED << runs, logVars, sqlVars >>

create_job_set(res) ==
    /\ api.pc = "idle"
    /\ \E j \in JobIds : job[j] = NoJob
    /\ job' = [job EXCEPT ![FreshId] = NewJob(res)]
    /\ api' = [pc |-> "create_push", job_id |-> FreshId, job |-> NoJob]
    /\ UNCHANGED << queue, resource, container, docker, workerVars, cancel_from >>
    /\ UNCHANGED << runs, logVars, sqlVars >>

create_job_push ==
    /\ api.pc = "create_push"
    /\ queue' = lpush(queue, api.job_id)
    /\ api' = IdleApi
    /\ UNCHANGED << job, resource, container, docker, workerVars, cancel_from >>
    /\ UNCHANGED << runs, logVars, sqlVars >>

\* ------------------------------------------------------------- API: cancel
\* Mutant: the status check also lets a completed job through.
Cancellable_completed(j) == job[j].status \in {"pending", "running", "completed"}

Cancellable(j) == job[j].status \in {"pending", "running"}

\* Lines 200-209: the record is missing (404) or is not pending/running (400).
cancel_job_reject(j) ==
    /\ api.pc = "idle"
    /\ ~Cancellable(j)
    /\ UNCHANGED vars

\* Lines 200-213: read the record, pass the status check, build the new record.
cancel_job_read(j) ==
    /\ api.pc = "idle"
    /\ Cancellable(j)
    /\ api' = [pc |-> "cancel_write", job_id |-> j,
               job |-> [job[j] EXCEPT !.status = "cancelled", !.completed_at = "now"]]
    /\ cancel_from' = [cancel_from EXCEPT ![j] = job[j].status]
    /\ UNCHANGED << storeVars, docker, workerVars >>
    /\ UNCHANGED << runs, logVars, sqlVars >>

\* Line 214: r.set(job_key, json.dumps(job))
cancel_job_write ==
    /\ api.pc = "cancel_write"
    /\ job' = [job EXCEPT ![api.job_id] = api.job]
    /\ api' = [api EXCEPT !.pc = "cancel_lrem"]
    /\ UNCHANGED << queue, resource, container, docker, workerVars, cancel_from >>
    /\ UNCHANGED << runs, logVars, sqlVars >>

\* Line 217: r.lrem("queue:pending", 0, job_id)
cancel_job_lrem ==
    /\ api.pc = "cancel_lrem"
    /\ queue' = lrem(queue, api.job_id)
    /\ api' = [api EXCEPT !.pc = "cancel_delete_resource"]
    /\ UNCHANGED << job, resource, container, docker, workerVars, cancel_from >>
    /\ UNCHANGED << runs, logVars, sqlVars >>

\* Lines 220-221: job.get("resource") is a non-empty string for every job.
cancel_job_delete_resource ==
    /\ api.pc = "cancel_delete_resource"
    /\ resource' = release_resource(api.job.resource)
    /\ api' = [api EXCEPT !.pc = "cancel_get_container", !.job = NoJob]
    /\ UNCHANGED << job, queue, container, docker, workerVars, cancel_from >>
    /\ UNCHANGED << runs, logVars, sqlVars >>

\* Lines 224-225: container_id = r.get(...); without one the handler returns.
cancel_job_get_container ==
    /\ api.pc = "cancel_get_container"
    /\ api' = IF container[api.job_id] = None THEN IdleApi
              ELSE [api EXCEPT !.pc = "cancel_stop"]
    /\ UNCHANGED << storeVars, docker, workerVars, cancel_from >>
    /\ UNCHANGED << runs, logVars, sqlVars >>

\* Lines 227-230: docker.from_env(), containers.get(), container.stop(timeout=5).
\* from_env or get may raise (no engine reachable from the API process, or the
\* container is already removed); the except clause only prints.
cancel_job_stop ==
    /\ api.pc = "cancel_stop"
    /\ \/ /\ docker[api.job_id].state \in {"running", "exited"}
          /\ docker' = [docker EXCEPT ![api.job_id] =
                          IF @.state = "running"
                          THEN [state |-> "exited", code |-> KilledCode] ELSE @]
          /\ api' = [api EXCEPT !.pc = "cancel_remove"]
       \/ /\ docker' = docker
          /\ api' = [api EXCEPT !.pc = "cancel_delete_container"]
    /\ UNCHANGED << storeVars, workerVars, cancel_from >>
    /\ UNCHANGED << runs, logVars, sqlVars >>

\* Line 231: container.remove(); raises when the runner removed it meanwhile.
cancel_job_remove ==
    /\ api.pc = "cancel_remove"
    /\ docker' = [docker EXCEPT ![api.job_id] =
                    IF @.state = "exited" THEN Removed(@.code) ELSE @]
    /\ api' = [api EXCEPT !.pc = "cancel_delete_container"]
    /\ UNCHANGED << storeVars, workerVars, cancel_from >>
    /\ UNCHANGED << runs, logVars, sqlVars >>

\* Lines 236-237: finally r.delete(f"container:{job_id}")
cancel_job_delete_container ==
    /\ api.pc = "cancel_delete_container"
    /\ container' = [container EXCEPT ![api.job_id] = None]
    /\ api' = IdleApi
    /\ UNCHANGED << job, queue, resource, docker, workerVars, cancel_from >>
    /\ UNCHANGED << runs, logVars, sqlVars >>

cancel_job ==
    \/ \E j \in JobIds : cancel_job_reject(j)
    \/ \E j \in JobIds : cancel_job_read(j)
    \/ cancel_job_write
    \/ cancel_job_lrem
    \/ cancel_job_delete_resource
    \/ cancel_job_get_container
    \/ cancel_job_stop
    \/ cancel_job_remove
    \/ cancel_job_delete_container

create_job ==
    \/ \E res \in Resources : create_job_set(res)
    \/ create_job_push

\* ------------------------------------------------------------ the engine
\* A running training container ends by itself with some exit code.
container_exit(j) ==
    /\ docker[j].state = "running"
    /\ \E c \in ExitCodes : docker' = [docker EXCEPT ![j] = [state |-> "exited", code |-> c]]
    /\ UNCHANGED << storeVars, api, workerVars, cancel_from >>
    /\ UNCHANGED << runs, logVars, sqlVars >>

\* ------------------------------------------------- worker: get_docker_client
\* The pairs << value returned, value left in the global docker_client >> a
\* call can end with.  A cached client is returned as is (line 29).  Otherwise
\* each method assigns the global before it pings (43-44, 54-55, 65-66): a
\* call whose every ping failed returns None (line 77) and leaves the global at
\* None, when no client was constructed, or at the last client constructed.
get_docker_client(dc) ==
    IF dc # "None" THEN { << dc, dc >> }
    ELSE { << "client", "client" >>, << "None", "None" >>, << "None", "client" >> }

\* Dead locals are cleared when an iteration of the loop ends.
EndIteration(w) ==
    /\ pc' = [pc EXCEPT ![w] = "pop"]
    /\ job_id' = [job_id EXCEPT ![w] = None]
    /\ job_data' = [job_data EXCEPT ![w] = NoJob]
    /\ current_job' = [current_job EXCEPT ![w] = NoJob]
    /\ result' = [result EXCEPT ![w] = 0]

Goto(w, label) == pc' = [pc EXCEPT ![w] = label]

\* --------------------------------------------- worker: process_pending_jobs
\* Lines 419-425: the startup call of get_docker_client.
process_start(w) ==
    /\ pc[w] = "start"
    /\ \E o \in get_docker_client(docker_client[w]) :
          docker_client' = [docker_client EXCEPT ![w] = o[2]]
    /\ Goto(w, "pop")
    /\ UNCHANGED << storeVars, docker, api, job_id, job_data, current_job, result,
                    cancel_from >>
    /\ UNCHANGED << runs, logVars, sqlVars >>

\* Mutant: the worker reads the id at the pop end and leaves it in the list.
process_pop_peeks(w) ==
    /\ pc[w] = "pop"
    /\ Len(queue) > 0
    /\ job_id' = [job_id EXCEPT ![w] = rpop_value(queue)]
    /\ Goto(w, "load")
    /\ UNCHANGED << storeVars, docker, api, docker_client, job_data, current_job,
                    result, cancel_from >>
    /\ UNCHANGED << runs, logVars, sqlVars >>

\* Lines 430-432: job_id = r.rpop("queue:pending"); an empty pop only sleeps.
process_pop(w) ==
    /\ pc[w] = "pop"
    /\ Len(queue) > 0
    /\ job_id' = [job_id EXCEPT ![w] = rpop_value(queue)]
    /\ queue' = rpop_rest(queue)
    /\ Goto(w, "load")
    /\ UNCHANGED << job, resource, container, docker, api, docker_client, job_data,
                    current_job, result, cancel_from >>
    /\ UNCHANGED << runs, logVars, sqlVars >>

\* Mutant: a missing record is passed on like any record that is not cancelled.
process_load_keeps_missing(w) ==
    /\ pc[w] = "load"
    /\ IF job[job_id[w]].status = "cancelled"
       THEN EndIteration(w)
       ELSE /\ job_data' = [job_data EXCEPT ![w] = job[job_id[w]]]
            /\ Goto(w, "check")
            /\ UNCHANGED << job_id, current_job, result >>
    /\ UNCHANGED << storeVars, docker, api, docker_client, cancel_from >>
    /\ UNCHANGED << runs, logVars, sqlVars >>

\* Lines 434-440: load the record; json.loads(None) raises into the handler at
\* 461, a cancelled record makes the loop continue.
process_load(w) ==
    /\ pc[w] = "load"
    /\ IF job[job_id[w]] = NoJob \/ job[job_id[w]].status = "cancelled"
       THEN EndIteration(w)
       ELSE /\ job_data' = [job_data EXCEPT ![w] = job[job_id[w]]]
            /\ Goto(w, "check")
            /\ UNCHANGED << job_id, current_job, result >>
    /\ UNCHANGED << storeVars, docker, api, docker_client, cancel_from >>
    /\ UNCHANGED << runs, logVars, sqlVars >>

\* Line 443: if check_resource_available(resource)
process_check(w) ==
    /\ pc[w] = "check"
    /\ Goto(w, IF check_resource_available(job_data[w].resource)
               THEN "acquire" ELSE "requeue")
    /\ UNCHANGED << storeVars, docker, api, docker_client, job_id, job_data,
                    current_job, result, cancel_from >>
    /\ UNCHANGED << runs, logVars, sqlVars >>

\* Mutant: the id of a job whose resource is busy is not pushed back.
process_requeue_drops(w) ==
    /\ pc[w] = "requeue"
    /\ EndIteration(w)
    /\ UNCHANGED << storeVars, docker, api, docker_client, cancel_from >>
    /\ UNCHANGED << runs, logVars, sqlVars >>

\* Lines 455-456: r.rpush("queue:pending", job_id)
process_requeue(w) ==
    /\ pc[w] = "requeue"
    /\ queue' = rpush(queue, job_id[w])
    /\ EndIteration(w)
    /\ UNCHANGED << job, resource, container, docker, api, docker_client, cancel_from >>
    /\ UNCHANGED << runs, logVars, sqlVars >>

\* Line 447: acquire_resource(resource, job_id)
process_acquire(w) ==
    /\ pc[w] = "acquire"
    /\ resource' = acquire_resource(job_data[w].resource, job_id[w])
    /\ Goto(w, "get_client")
    /\ UNCHANGED << job, queue, container, docker, api, docker_client, job_id,
                    job_data, current_job, result, cancel_from >>
    /\ runs' = [runs EXCEPT ![job_id[w]] = @ + 1]
    /\ UNCHANGED << logVars, sqlVars >>

\* ------------------------------------------------ worker: run_training_job
\* Mutant: the failure is recorded without its message.
Failed_no_message(rec, err) == [rec EXCEPT !.status = "failed"]

Failed(rec, err) == [rec EXCEPT !.status = "failed", !.error = err]

\* Lines 135-137: client = get_docker_client(); if client is None
run_get_client(w) ==
    /\ pc[w] = "get_client"
    /\ \E o \in get_docker_client(docker_client[w]) :
          /\ docker_client' = [docker_client EXCEPT ![w] = o[2]]
          /\ Goto(w, IF o[1] = "None" THEN "no_client_write" ELSE "prepare")
    /\ UNCHANGED << storeVars, docker, api, job_id, job_data, current_job, result,
                    cancel_from >>
    /\ UNCHANGED << runs, logVars, sqlVars >>

\* Mutant: the no-client record carries no completion time.
NoClientRecord_no_time(rec) == Failed(rec, "Docker client not available")

\* Lines 138-141: the record written when no Docker client is available.
NoClientRecord(rec) ==
    [Failed(rec, "Docker client not available") EXCEPT !.completed_at = "now"]

run_no_client_write(w) ==
    /\ pc[w] = "no_client_write"
    /\ job_data' = [job_data EXCEPT ![w] = NoClientRecord(@)]
    /\ job' = [job EXCEPT ![job_id[w]] = NoClientRecord(job_data[w])]
    /\ Goto(w, "no_client_release")
    /\ UNCHANGED << queue, resource, container, docker, api, docker_client, job_id,
                    current_job, result, cancel_from >>
    /\ UNCHANGED << runs, logVars, sqlVars >>

\* Lines 142-143: release_resource(job_data["resource"]); return
run_no_client_release(w) ==
    /\ pc[w] = "no_client_release"
    /\ resource' = release_resource(job_data[w].resource)
    /\ EndIteration(w)
    /\ UNCHANGED << job, queue, container, docker, api, docker_client, cancel_from >>
    /\ UNCHANGED << runs, logVars, sqlVars >>

\* Lines 212-213: the record written at the end of Prepare.
RunningRecord(rec) == [rec EXCEPT !.status = "running", !.started_at = "now"]

\* Lines 147-214: extraction touches only the job's directory; either it
\* raises, or output.log is created with the header (205-209, mode 'w') and
\* the record is written with status running.
run_prepare(w) ==
    /\ pc[w] = "prepare"
    /\ \/ /\ Goto(w, "except")
          /\ UNCHANGED << job, job_data, output_log >>
       \/ /\ job_data' = [job_data EXCEPT ![w] = RunningRecord(@)]
          /\ job' = [job EXCEPT ![job_id[w]] = RunningRecord(job_data[w])]
          /\ output_log' = [output_log EXCEPT ![job_id[w]] = LogHeader]
          /\ Goto(w, "launch")
    /\ UNCHANGED << queue, resource, container, docker, api, docker_client, job_id,
                    current_job, result, cancel_from >>
    /\ UNCHANGED << runs, stream, sqlVars >>

\* Line 308: client.containers.run(...); raises on an image or engine error and
\* when a container named ml-job-<id> still exists.
run_launch(w) ==
    /\ pc[w] = "launch"
    /\ \/ /\ Goto(w, "except")
          /\ UNCHANGED docker
       \/ /\ docker[job_id[w]].state \in {"none", "removed"}
          /\ docker' = [docker EXCEPT ![job_id[w]] = [state |-> "running", code |-> 0]]
          /\ Goto(w, "set_container")
    /\ UNCHANGED << storeVars, api, docker_client, job_id, job_data, current_job,
                    result, cancel_from >>
    /\ UNCHANGED << runs, logVars, sqlVars >>

\* Line 311: r.set(f"container:{job_id}", container.id)
run_set_container(w) ==
    /\ pc[w] = "set_container"
    /\ container' = [container EXCEPT ![job_id[w]] = job_id[w]]
    /\ Goto(w, "wait")
    /\ UNCHANGED << job, queue, resource, docker, api, docker_client, job_id,
                    job_data, current_job, result, cancel_from >>
    /\ UNCHANGED << runs, logVars, sqlVars >>

\* Lines 317-328: the log stream ends when the container is no longer running;
\* container.wait() returns its exit code, or raises when it has been removed.
run_wait(w) ==
    /\ pc[w] = "wait"
    /\ docker[job_id[w]].state # "running"
    /\ IF docker[job_id[w]].state = "exited"
       THEN /\ result' = [result EXCEPT ![w] = docker[job_id[w]].code]
            /\ Goto(w, "reconcile")
       ELSE /\ Goto(w, "except")
            /\ UNCHANGED result
    /\ UNCHANGED << storeVars, docker, api, docker_client, job_id, job_data,
                    current_job, cancel_from >>
    /\ UNCHANGED << runs, logVars, sqlVars >>

\* Mutant: exit code 0 is recorded as a failure too.
ExitRecord_always_failed(rec, code) == Failed(rec, ExitError(code))

\* Lines 365-370: the status chosen from the exit code.
ExitRecord(rec, code) ==
    IF code = 0 THEN [rec EXCEPT !.status = "completed"]
    ELSE Failed(rec, ExitError(code))

\* Lines 334-339 and 365-371: re-read the record; a cancelled record replaces
\* job_data, otherwise job_data takes the status the exit code gives.  The
\* record read and the exit code are not used after this step.
run_reconcile(w) ==
    /\ pc[w] = "reconcile"
    /\ IF job[job_id[w]].status = "cancelled"
       THEN /\ job_data' = [job_data EXCEPT ![w] = job[job_id[w]]]
            /\ Goto(w, "remove_cancelled")
       ELSE /\ job_data' = [job_data EXCEPT ![w] = ExitRecord(@, result[w])]
            /\ Goto(w, "remove")
    /\ result' = [result EXCEPT ![w] = 0]
    /\ UNCHANGED << storeVars, docker, api, docker_client, job_id, current_job,
                    cancel_from >>
    /\ UNCHANGED << runs, logVars, sqlVars >>

\* Lines 341-346: container.remove() inside try/except, then return (finally).
run_remove_cancelled(w) ==
    /\ pc[w] = "remove_cancelled"
    /\ docker' = [docker EXCEPT ![job_id[w]] =
                    IF @.state = "exited" THEN Removed(@.code) ELSE @]
    /\ Goto(w, "finally_read")
    /\ UNCHANGED << storeVars, api, docker_client, job_id, job_data, current_job,
                    result, cancel_from >>
    /\ UNCHANGED << runs, logVars, sqlVars >>

\* Line 374: container.remove(); raises when cancel_job removed it already.
run_remove(w) ==
    /\ pc[w] = "remove"
    /\ IF docker[job_id[w]].state = "exited"
       THEN /\ docker' = [docker EXCEPT ![job_id[w]] = Removed(@.code)]
            /\ Goto(w, "finally_read")
       ELSE /\ Goto(w, "except")
            /\ UNCHANGED docker
    /\ UNCHANGED << storeVars, api, docker_client, job_id, job_data, current_job,
                    result, cancel_from >>
    /\ UNCHANGED << runs, logVars, sqlVars >>

\* Lines 377-402: the except clause re-reads the record; a cancelled record
\* replaces job_data, otherwise job_data becomes failed with str(e) and the
\* error text is appended to output.log (394-400).
run_except(w) ==
    /\ pc[w] = "except"
    /\ IF job[job_id[w]].status = "cancelled"
       THEN /\ job_data' = [job_data EXCEPT ![w] = job[job_id[w]]]
            /\ UNCHANGED output_log
       ELSE /\ job_data' = [job_data EXCEPT ![w] = Failed(@, "exception")]
            /\ output_log' = [output_log EXCEPT ![job_id[w]] = @ + LogErrorText]
    /\ Goto(w, "finally_read")
    /\ UNCHANGED << storeVars, docker, api, docker_client, job_id, current_job, result,
                    cancel_from >>
    /\ UNCHANGED << runs, stream, sqlVars >>

\* Line 409: the test that guards the final write.
FinalWriteAllowed(rec) == rec.status # "cancelled"

\* Lines 406-409: the finally clause re-reads the record.
run_finally_read(w) ==
    /\ pc[w] = "finally_read"
    /\ current_job' = [current_job EXCEPT ![w] = job[job_id[w]]]
    /\ Goto(w, IF FinalWriteAllowed(job[job_id[w]]) THEN "finally_write" ELSE "release")
    /\ UNCHANGED << storeVars, docker, api, docker_client, job_id, job_data, result,
                    cancel_from >>
    /\ UNCHANGED << runs, logVars, sqlVars >>

\* Lines 410-411: job_data["completed_at"] = now; r.set(job:<id>, job_data)
run_finally_write(w) ==
    /\ pc[w] = "finally_write"
    /\ job_data' = [job_data EXCEPT ![w].completed_at = "now"]
    /\ job' = [job EXCEPT ![job_id[w]] = [job_data[w] EXCEPT !.completed_at = "now"]]
    /\ Goto(w, "release")
    /\ UNCHANGED << queue, resource, container, docker, api, docker_client, job_id,
                    current_job, result, cancel_from >>
    /\ UNCHANGED << runs, logVars, sqlVars >>

\* Line 414: release_resource(job_data["resource"])
run_release(w) ==
    /\ pc[w] = "release"
    /\ resource' = release_resource(job_data[w].resource)
    /\ EndIteration(w)
    /\ UNCHANGED << job, queue, container, docker, api, docker_client, cancel_from >>
    /\ UNCHANGED << runs, logVars, sqlVars >>

run_training_job(w) ==
    \/ run_get_client(w)
    \/ run_no_client_write(w)
    \/ run_no_client_release(w)
    \/ run_prepare(w)
    \/ run_launch(w)
    \/ run_set_container(w)
    \/ run_wait(w)
    \/ run_reconcile(w)
    \/ run_remove_cancelled(w)
    \/ run_remove(w)
    \/ run_except(w)
    \/ run_finally_read(w)
    \/ run_finally_write(w)
    \/ run_release(w)

process_pending_jobs(w) ==
    \/ process_start(w)
    \/ process_pop(w)
    \/ process_load(w)
    \/ process_check(w)
    \/ process_requeue(w)
    \/ process_acquire(w)
    \/ run_training_job(w)

\* The number of job records the API has created.
Submitted == Cardinality({j \in JobIds : job[j] # NoJob})

Next ==
    \/ /\ Submitted < SpecJobs
       /\ \E res \in 1 .. SpecResources : create_job_set(res)
    \/ create_job_push
    \/ cancel_job
    \/ \E j \in JobIds : container_exit(j)
    \/ \E w \in Workers : process_pending_jobs(w)

Spec == Init /\ [][Next]_vars

\* ------------------------------------------------------------ SpecDispatch
\* One worker started against a store it did not build: queue:pending holds
\* the id of job 1, whose record is missing or has any of the five statuses,
\* and the lease of its resource is free or held by a running job 2; a pending
\* job 3 for the other resource may wait behind it.  The loop must tolerate
\* such ids (a record that is missing or not pending).
StoredJob(st, res) ==
    IF st = "absent" THEN NoJob
    ELSE [status       |-> st,
          resource     |-> res,
          started_at   |-> IF st \in {"running", "completed", "failed"}
                           THEN "now" ELSE "None",
          completed_at |-> IF st \in {"completed", "failed", "cancelled"}
                           THEN "now" ELSE "None",
          error        |-> IF st = "failed" THEN "exception" ELSE "None"]

StoredStatuses == {"absent", "pending", "running", "completed", "failed", "cancelled"}

DispatchWorker == 1

InitDispatch ==
    /\ \E st \in StoredStatuses, busy \in BOOLEAN, more \in BOOLEAN :
          /\ job = [j \in JobIds |->
                      IF j = 1 THEN StoredJob(st, 1)
                      ELSE IF j = 2 /\ busy THEN StoredJob("running", 1)
                      ELSE IF j = 3 /\ more THEN StoredJob("pending", 2)
                      ELSE NoJob]
          /\ queue = IF more THEN << 3, 1 >> ELSE << 1 >>
          /\ resource = [r \in Resources |-> IF r = 1 /\ busy THEN 2 ELSE None]
          /\ docker = [j \in JobIds |->
                         IF j = 2 /\ busy THEN [state |-> "running", code |-> 0]
                         ELSE NoContainer]
          /\ container = [j \in JobIds |-> IF j = 2 /\ busy THEN 2 ELSE None]
    /\ api = IdleApi
    /\ pc = [w \in Workers |-> "start"]
    /\ docker_client = [w \in Workers |-> "None"]
    /\ job_id = [w \in Workers |-> None]
    /\ job_data = [w \in Workers |-> NoJob]
    /\ current_job = [w \in Workers |-> NoJob]
    /\ result = [w \in Workers |-> 0]
    /\ cancel_from = [j \in JobIds |-> "none"]
    /\ runs = [j \in JobIds |-> 0]
    /\ InitLogs
    /\ InitSql

NextDispatch ==
    \/ cancel_job
    \/ \E j \in JobIds : container_exit(j)
    \/ process_pending_jobs(DispatchWorker)

SpecDispatch == InitDispatch /\ [][NextDispatch]_vars

\* --------------------------------------------------------------- SpecQueue
\* Submission and dispatch without cancel_job: up to QueueJobs jobs over
\* QueueResources resources, from the empty store.  No record is ever
\* cancelled, so the branch at lines 340-346 is not reachable and is left out
\* of the worker's steps.  Each worker is a process of its own that keeps
\* running its loop: weak fairness on its steps.  Nothing makes a training
\* container exit, so container_exit has no fairness.
QueueJobs      == 3
QueueResources == 2

worker_step(w) ==
    \/ process_start(w)
    \/ process_pop(w)
    \/ process_load(w)
    \/ process_check(w)
    \/ process_requeue(w)
    \/ process_acquire(w)
    \/ run_get_client(w)
    \/ run_no_client_write(w)
    \/ run_no_client_release(w)
    \/ run_prepare(w)
    \/ run_launch(w)
    \/ run_set_container(w)
    \/ run_wait(w)
    \/ run_reconcile(w)
    \/ run_remove(w)
    \/ run_except(w)
    \/ run_finally_read(w)
    \/ run_finally_write(w)
    \/ run_release(w)

NextQueue ==
    \/ /\ Submitted < QueueJobs
       /\ \E res \in 1 .. QueueResources : create_job_set(res)
    \/ create_job_push
    \/ \E j \in JobIds : container_exit(j)
    \/ \E w \in Workers : worker_step(w)

SpecQueue ==
    /\ Init
    /\ [][NextQueue]_vars
    /\ \A w \in Workers : WF_vars(worker_step(w))

\* ------------------------------------------------------------- SpecRestart
\* The worker process dies at any point of its loop and is started again: its
\* locals and the module global docker_client (line 24) are fresh and the loop
\* is entered from its first line.  The store and the training container, which
\* is run detached (line 294), are left as they are.
worker_crash(w) ==
    /\ pc[w] # "start"
    /\ pc' = [pc EXCEPT ![w] = "start"]
    /\ docker_client' = [docker_client EXCEPT ![w] = "None"]
    /\ job_id' = [job_id EXCEPT ![w] = None]
    /\ job_data' = [job_data EXCEPT ![w] = NoJob]
    /\ current_job' = [current_job EXCEPT ![w] = NoJob]
    /\ result' = [result EXCEPT ![w] = 0]
    /\ UNCHANGED << storeVars, docker, api, cancel_from >>
    /\ UNCHANGED << runs, logVars, sqlVars >>

RestartJobs      == 2
RestartResources == 1

NextRestart ==
    \/ /\ Submitted < RestartJobs
       /\ \E res \in 1 .. RestartResources : create_job_set(res)
    \/ create_job_push
    \/ \E j \in JobIds : container_exit(j)
    \/ \E w \in Workers : worker_step(w)
    \/ \E w \in Workers : worker_crash(w)

SpecRestart == Init /\ [][NextRestart]_vars

\* --------------------------------------------------------------- SpecError
\* Lines 461-463: a Redis command of the iteration (r.get at 434, r.exists at
\* 443, r.set at 447, r.rpush at 455) raises; the handler prints the error,
\* sleeps and the loop goes on with the next rpop.  The command had no effect.
process_error(w) ==
    /\ pc[w] \in {"load", "check", "acquire", "requeue"}
    /\ EndIteration(w)
    /\ UNCHANGED << storeVars, docker, api, docker_client, cancel_from >>
    /\ UNCHANGED << runs, logVars, sqlVars >>

\* Mutant: the exception leaves the loop and the worker stops.
run_handler_error_stops(w) ==
    /\ pc[w] \in {"no_client_write", "no_client_release", "except", "finally_read",
                  "finally_write", "release"}
    /\ pc' = [pc EXCEPT ![w] = "stopped"]
    /\ UNCHANGED << storeVars, docker, api, docker_client, job_id, job_data,
                    current_job, result, cancel_from >>
    /\ UNCHANGED << runs, logVars, sqlVars >>

\* A Redis command outside the try block of run_training_job (r.set at 141,
\* r.delete at 130 called from 142) or inside its except and finally clauses
\* (r.get at 379 and 406, r.set at 411, r.delete called from 414) raises: the
\* exception leaves run_training_job and is caught by the loop at 461-463.
run_handler_error(w) ==
    /\ pc[w] \in {"no_client_write", "no_client_release", "except", "finally_read",
                  "finally_write", "release"}
    /\ EndIteration(w)
    /\ UNCHANGED << storeVars, docker, api, docker_client, cancel_from >>
    /\ UNCHANGED << runs, logVars, sqlVars >>

ErrorJobs      == 2
ErrorResources == 1

NextError ==
    \/ /\ Submitted < ErrorJobs
       /\ \E res \in 1 .. ErrorResources : create_job_set(res)
    \/ create_job_push
    \/ \E j \in JobIds : container_exit(j)
    \/ \E w \in Workers : worker_step(w)
    \/ \E w \in Workers : process_error(w)
    \/ \E w \in Workers : run_handler_error(w)

\* Each worker keeps running its loop, every launched container ends and a
\* submit runs to its end; no fairness for the errors.
SpecError ==
    /\ Init
    /\ [][NextError]_vars
    /\ \A w \in Workers : WF_vars(worker_step(w))
    /\ \A j \in JobIds : WF_vars(container_exit(j))
    /\ WF_vars(create_job_push)

\* ---------------------------------------------------------------- SpecFifo
\* Submission and one worker, without cancel_job: the lease tested at line 443
\* is written only by this worker (447) and released before its iteration
\* ends (143, 414), so no id is ever requeued or cancelled and the requeue at
\* 455 is left out of the worker's steps.
FifoJobs      == 3
FifoResources == 2

worker_step_alone(w) ==
    \/ process_start(w)
    \/ process_pop(w)
    \/ process_load(w)
    \/ process_check(w)
    \/ process_acquire(w)
    \/ run_get_client(w)
    \/ run_no_client_write(w)
    \/ run_no_client_release(w)
    \/ run_prepare(w)
    \/ run_launch(w)
    \/ run_set_container(w)
    \/ run_wait(w)
    \/ run_reconcile(w)
    \/ run_remove(w)
    \/ run_except(w)
    \/ run_finally_read(w)
    \/ run_finally_write(w)
    \/ run_release(w)

NextFifo ==
    \/ /\ Submitted < FifoJobs
       /\ \E res \in 1 .. FifoResources : create_job_set(res)
    \/ create_job_push
    \/ \E j \in JobIds : container_exit(j)
    \/ worker_step_alone(DispatchWorker)

SpecFifo == Init /\ [][NextFifo]_vars

\* ------------------------------------------------------------ SpecNoDocker
\* The Docker engine cannot be reached at any time: every ping fails, so a
\* call of get_docker_client that finds no cached client returns None (line
\* 77), and containers.run (line 308) raises.  The startup call (line 421)
\* leaves the global at None or at a client whose ping failed.  No container
\* is ever launched and the steps after the launch are not reached; no
\* cancel_job.
run_get_client_down(w) ==
    /\ run_get_client(w)
    /\ docker_client[w] = "None" => pc'[w] = "no_client_write"

run_launch_down(w) ==
    /\ run_launch(w)
    /\ pc'[w] = "except"

NoDockerJobs      == 2
NoDockerResources == 1

worker_step_down(w) ==
    \/ process_start(w)
    \/ process_pop(w)
    \/ process_load(w)
    \/ process_check(w)
    \/ process_requeue(w)
    \/ process_acquire(w)
    \/ run_get_client_down(w)
    \/ run_no_client_write(w)
    \/ run_no_client_release(w)
    \/ run_prepare(w)
    \/ run_launch_down(w)
    \/ run_except(w)
    \/ run_finally_read(w)
    \/ run_finally_write(w)
    \/ run_release(w)

NextNoDocker ==
    \/ /\ Submitted < NoDockerJobs
       /\ \E res \in 1 .. NoDockerResources : create_job_set(res)
    \/ create_job_push
    \/ \E w \in Workers : worker_step_down(w)

SpecNoDocker == Init /\ [][NextNoDocker]_vars

\* ---------------------------------------------------------------- SpecLive
\* Submission and dispatch without cancel_job, no crash and no failing Redis
\* command: LiveJobs jobs compete for LiveResources resources.  Each worker
\* keeps running its loop, every launched container ends and a submit runs to
\* its end.
LiveJobs      == 3
LiveResources == 1

NextLive ==
    \/ /\ Submitted < LiveJobs
       /\ \E res \in 1 .. LiveResources : create_job_set(res)
    \/ create_job_push
    \/ \E j \in JobIds : container_exit(j)
    \/ \E w \in Workers : worker_step(w)

SpecLive ==
    /\ Init
    /\ [][NextLive]_vars
    /\ \A w \in Workers : WF_vars(worker_step(w))
    /\ \A j \in JobIds : WF_vars(container_exit(j))
    /\ WF_vars(create_job_push)

\* -------------------------------------------------------------- SpecStream
\* One job whose container writes output, one worker, no cancel_job, and one
\* request of GET /api/jobs/<id>/logs/stream.  log_generator (main.py 173-192) is a
\* coroutine of the API process; each of its file and Redis operations is one
\* step, and the worker process writes the file between any two of them.
StreamJobs   == 1
MaxLogChunks == 2

\* The bytes numbered from + 1 .. to, in order.
Bytes(from, to) == [i \in 1 .. (to - from) |-> from + i]

\* Lines 317-321: one chunk of the container's output is appended and flushed.
run_log_chunk(w) ==
    /\ pc[w] = "wait"
    /\ docker[job_id[w]].state = "running"
    /\ output_log[job_id[w]] < LogHeader + MaxLogChunks
    /\ output_log' = [output_log EXCEPT ![job_id[w]] = @ + 1]
    /\ UNCHANGED << storeVars, docker, api, workerVars, cancel_from, runs, stream,
                    sqlVars >>

\* Lines 168-174: the request starts the generator with last_size = 0.
stream_job_logs(j) ==
    /\ stream.pc = "closed"
    /\ stream' = [ClosedStream EXCEPT !.pc = "size", !.job_id = j]
    /\ UNCHANGED << storeVars, docker, api, workerVars, cancel_from, runs,
                    output_log, sqlVars >>

\* Lines 176-178: current_size = os.path.getsize(log_file), when the file
\* exists; the read is entered when current_size > last_size.
stream_getsize ==
    /\ stream.pc = "size"
    /\ stream' = [stream EXCEPT
                    !.current_size = output_log[stream.job_id],
                    !.pc = IF output_log[stream.job_id] > stream.last_size
                           THEN "read" ELSE "status"]
    /\ UNCHANGED << storeVars, docker, api, workerVars, cancel_from, runs,
                    output_log, sqlVars >>

\* Lines 179-183: seek(last_size), read() up to the end the file has now,
\* last_size = current_size, and the chunk is emitted.
stream_read ==
    /\ stream.pc = "read"
    /\ stream' = [stream EXCEPT
                    !.emitted = @ \o Bytes(stream.last_size, output_log[stream.job_id]),
                    !.last_size = stream.current_size,
                    !.pc = "status"]
    /\ UNCHANGED << storeVars, docker, api, workerVars, cancel_from, runs,
                    output_log, sqlVars >>

\* Lines 186-192: the generator ends when the record exists and its status is
\* neither pending nor running; otherwise it sleeps and starts over.
stream_status ==
    /\ stream.pc = "status"
    /\ stream' = [stream EXCEPT
                    !.pc = IF /\ job[stream.job_id] # NoJob
                              /\ job[stream.job_id].status \notin {"pending", "running"}
                           THEN "done" ELSE "size"]
    /\ UNCHANGED << storeVars, docker, api, workerVars, cancel_from, runs,
                    output_log, sqlVars >>

log_generator ==
    \/ stream_getsize
    \/ stream_read
    \/ stream_status

NextStream ==
    \/ /\ Submitted < StreamJobs
       /\ \E res \in 1 .. SpecResources : create_job_set(res)
    \/ create_job_push
    \/ \E j \in JobIds : container_exit(j)
    \/ worker_step_alone(DispatchWorker)
    \/ run_log_chunk(DispatchWorker)
    \/ \E j \in 1 .. StreamJobs : stream_job_logs(j)
    \/ log_generator

SpecStream == Init /\ [][NextStream]_vars

\* ----------------------------------------------------------------- SpecSql
\* The SQL-backed implementation (backend/app).  Every commit, every Redis
\* command and every Docker engine call is one step.  The steps of the API
\* handlers and of the API process's scheduler share that process's event
\* loop; the training_worker process interleaves with them at every step.
redisVars ==
    << job, queue, resource, container, docker, api, workerVars, cancel_from, runs,
       logVars >>

CanRun(s, co) == loop[s] \in {Free, co}
Take(s, co)   == loop' = [loop EXCEPT ![s] = co]
Yield(s)      == loop' = [loop EXCEPT ![s] = Free]

\* The autoincrement primary key of table jobs.
FreshRowId ==
    CHOOSE j \in JobIds : rows[j] = NoRow /\ \A k \in 1 .. (j - 1) : rows[k] # NoRow

\* app/main.py 217-225: the row is committed with status pending; the handler
\* then awaits the uploads.
sql_create_job_commit(gpu) ==
    /\ handler.pc = "idle"
    /\ loop["api"] = Free
    /\ \E j \in JobIds : rows[j] = NoRow
    /\ rows' = [rows EXCEPT ![FreshRowId] = NewRow(gpu)]
    /\ handler' = [pc |-> "add_job", job_id |-> FreshRowId]
    /\ UNCHANGED << gpu_queue, running_jobs, sched, task, engine, loop,
                    sql_cancel_from, redisVars >>

\* app/main.py 256 and add_job (job_scheduler.py 21-28):
\* rpush(f"queue:gpu:{job.gpu_id}", job_id)
sql_create_job_add ==
    /\ handler.pc = "add_job"
    /\ loop["api"] = Free
    /\ gpu_queue' = [gpu_queue EXCEPT ![rows[handler.job_id].gpu_id] =
                       rpush(@, handler.job_id)]
    /\ handler' = IdleHandler
    /\ UNCHANGED << rows, running_jobs, sched, task, engine, loop, sql_cancel_from,
                    redisVars >>

\* app/main.py 266-276: the row is read.  A running job with a container id
\* goes on to stop_container, one without goes on to the commit, both without
\* an await that suspends; a pending job awaits remove_job.
sql_cancel_read(j) ==
    /\ handler.pc = "idle"
    /\ loop["api"] = Free
    /\ rows[j].status \in {"pending", "running"}
    /\ sql_cancel_from' = [sql_cancel_from EXCEPT ![j] = rows[j].status]
    /\ IF rows[j].status = "pending"
       THEN /\ handler' = [pc |-> "remove_job", job_id |-> j]
            /\ UNCHANGED loop
       ELSE /\ handler' = [pc |-> IF rows[j].container_id # "None"
                                  THEN "stop" ELSE "commit",
                           job_id |-> j]
            /\ Take("api", HandlerCo)
    /\ UNCHANGED << rows, gpu_queue, running_jobs, sched, task, engine, redisVars >>

\* app/main.py 266-279 for a job that is neither running nor pending: nothing
\* is changed and "Job cancelled" is returned.
sql_cancel_terminal(j) ==
    /\ handler.pc = "idle"
    /\ loop["api"] = Free
    /\ rows[j].status \in {"completed", "failed", "cancelled"}
    /\ UNCHANGED vars

\* app/main.py 273 and stop_container (docker_runner.py 141-148): stop and
\* remove; an error is logged and swallowed.
sql_cancel_stop ==
    /\ handler.pc = "stop"
    /\ engine' = [engine EXCEPT ![handler.job_id] =
                    IF @.state = "running" THEN Removed(KilledCode)
                    ELSE IF @.state = "exited" THEN Removed(@.code)
                    ELSE @]
    /\ handler' = [handler EXCEPT !.pc = "commit"]
    /\ UNCHANGED << rows, gpu_queue, running_jobs, sched, task, loop,
                    sql_cancel_from, redisVars >>

\* app/main.py 277 and remove_job (job_scheduler.py 30-37): lrem
sql_cancel_remove_job ==
    /\ handler.pc = "remove_job"
    /\ gpu_queue' = [gpu_queue EXCEPT ![rows[handler.job_id].gpu_id] =
                       lrem(@, handler.job_id)]
    /\ handler' = [handler EXCEPT !.pc = "commit"]
    /\ UNCHANGED << rows, running_jobs, sched, task, engine, loop, sql_cancel_from,
                    redisVars >>

\* app/main.py 274 or 276, and 279: job.status = "cancelled"; db.commit().
\* The UPDATE sets the status column only.
sql_cancel_commit ==
    /\ handler.pc = "commit"
    /\ CanRun("api", HandlerCo)
    /\ rows' = [rows EXCEPT ![handler.job_id].status = "cancelled"]
    /\ handler' = IdleHandler
    /\ Yield("api")
    /\ UNCHANGED << gpu_queue, running_jobs, sched, task, engine, sql_cancel_from,
                    redisVars >>

sql_cancel_job ==
    \/ \E j \in JobIds : sql_cancel_read(j)
    \/ \E j \in JobIds : sql_cancel_terminal(j)
    \/ sql_cancel_stop
    \/ sql_cancel_remove_job
    \/ sql_cancel_commit

\* job_scheduler.py 57-66: a GPU whose entry in running_jobs names a job with
\* status running is skipped (the call ends, run sleeps); an entry whose job
\* is no longer running is deleted.  Line 69 then awaits the lpop.
process_queues_check(s, g) ==
    /\ sched[s] = "check"
    /\ loop[s] = Free
    /\ IF running_jobs[s][g] # None /\ rows[running_jobs[s][g]].status = "running"
       THEN UNCHANGED << running_jobs, sched >>
       ELSE /\ running_jobs' = [running_jobs EXCEPT ![s][g] = None]
            /\ sched' = [sched EXCEPT ![s] = "lpop"]
    /\ UNCHANGED << rows, gpu_queue, task, engine, handler, loop, sql_cancel_from,
                    redisVars >>

\* job_scheduler.py 69-77: lpop; a popped job whose row is pending gets a
\* start_job task and the entry running_jobs[gpu.id].
process_queues_lpop(s, g) ==
    /\ sched[s] = "lpop"
    /\ loop[s] = Free
    /\ sched' = [sched EXCEPT ![s] = "check"]
    /\ IF gpu_queue[g] = << >>
       THEN UNCHANGED << gpu_queue, task, running_jobs >>
       ELSE /\ gpu_queue' = [gpu_queue EXCEPT ![g] = Tail(@)]
            /\ IF rows[Head(gpu_queue[g])].status = "pending"
               THEN /\ task' = [task EXCEPT ![Head(gpu_queue[g])] =
                                  [pc |-> "created", owner |-> s, gpu |-> g,
                                   result |-> "none"]]
                    /\ running_jobs' = [running_jobs EXCEPT ![s][g] =
                                          Head(gpu_queue[g])]
               ELSE UNCHANGED << task, running_jobs >>
    /\ UNCHANGED << rows, engine, handler, loop, sql_cancel_from, redisVars >>

process_queues(s) ==
    \/ \E g \in Gpus : process_queues_check(s, g)
    \/ \E g \in Gpus : process_queues_lpop(s, g)

\* job_scheduler.py 80-86: job.status = "running"; db.commit().  The task
\* keeps its process's event loop until wait_for_completion sleeps.
start_job_running(j) ==
    /\ task[j].pc = "created"
    /\ loop[task[j].owner] = Free
    /\ rows' = [rows EXCEPT ![j].status = "running"]
    /\ task' = [task EXCEPT ![j].pc = "run_job"]
    /\ Take(task[j].owner, TaskCo(j))
    /\ UNCHANGED << gpu_queue, running_jobs, sched, engine, handler,
                    sql_cancel_from, redisVars >>

\* job_scheduler.py 89 and run_job (docker_runner.py 29-102): the image build
\* or containers.run raises, or the container job-<id> is started.
start_job_run_job(j) ==
    /\ task[j].pc = "run_job"
    /\ \/ /\ task' = [task EXCEPT ![j].pc = "except"]
          /\ UNCHANGED engine
       \/ /\ engine[j].state = "none"
          /\ engine' = [engine EXCEPT ![j] = [state |-> "running", code |-> 0]]
          /\ task' = [task EXCEPT ![j].pc = "set_container"]
    /\ UNCHANGED << rows, gpu_queue, running_jobs, sched, handler, loop,
                    sql_cancel_from, redisVars >>

\* job_scheduler.py 92-93: job.container_id = container_id; db.commit()
start_job_set_container(j) ==
    /\ task[j].pc = "set_container"
    /\ rows' = [rows EXCEPT ![j].container_id = "set"]
    /\ task' = [task EXCEPT ![j].pc = "wait"]
    /\ UNCHANGED << gpu_queue, running_jobs, sched, engine, handler, loop,
                    sql_cancel_from, redisVars >>

\* wait_for_completion (docker_runner.py 117-139): reload; a container that
\* has not exited lets the task sleep; an exited one gives success for exit
\* code 0 and failed otherwise; a removed one raises in reload, which line 138
\* turns into failed.
start_job_wait(j) ==
    /\ task[j].pc = "wait"
    /\ CanRun(task[j].owner, TaskCo(j))
    /\ IF engine[j].state = "running"
       THEN /\ loop[task[j].owner] = TaskCo(j)
            /\ Yield(task[j].owner)
            /\ UNCHANGED task
       ELSE /\ task' = [task EXCEPT
                          ![j].pc = "final",
                          ![j].result = IF engine[j].state = "exited" /\ engine[j].code = 0
                                        THEN "success" ELSE "failed"]
            /\ Take(task[j].owner, TaskCo(j))
    /\ UNCHANGED << rows, gpu_queue, running_jobs, sched, engine, handler,
                    sql_cancel_from, redisVars >>

\* The row start_job writes after wait_for_completion (lines 99-106).
FinalRow(row, res) ==
    IF res = "success"
    THEN [row EXCEPT !.status = "completed", !.completed_at = "now"]
    ELSE [row EXCEPT !.status = "failed", !.error_log = "error",
                     !.completed_at = "now"]

\* job_scheduler.py 98-107 and 116-120: the status from the result and
\* completed_at are committed; finally deletes running_jobs[gpu.id].
start_job_final(j) ==
    /\ task[j].pc = "final"
    /\ rows' = [rows EXCEPT ![j] = FinalRow(@, task[j].result)]
    /\ running_jobs' = [running_jobs EXCEPT ![task[j].owner][task[j].gpu] = None]
    /\ task' = [task EXCEPT ![j].pc = "done"]
    /\ Yield(task[j].owner)
    /\ UNCHANGED << gpu_queue, sched, engine, handler, sql_cancel_from, redisVars >>

\* job_scheduler.py 109-120: the except clause commits failed with the error
\* and completed_at; finally deletes running_jobs[gpu.id].
start_job_except(j) ==
    /\ task[j].pc = "except"
    /\ rows' = [rows EXCEPT ![j] = FinalRow(@, "failed")]
    /\ running_jobs' = [running_jobs EXCEPT ![task[j].owner][task[j].gpu] = None]
    /\ task' = [task EXCEPT ![j].pc = "done"]
    /\ Yield(task[j].owner)
    /\ UNCHANGED << gpu_queue, sched, engine, handler, sql_cancel_from, redisVars >>

start_job(j) ==
    \/ start_job_running(j)
    \/ start_job_run_job(j)
    \/ start_job_set_container(j)
    \/ start_job_wait(j)
    \/ start_job_final(j)
    \/ start_job_except(j)

\* The training command of container job-<id> ends by itself.
sql_container_exit(j) ==
    /\ engine[j].state = "running"
    /\ \E c \in ExitCodes : engine' = [engine EXCEPT ![j] = [state |-> "exited", code |-> c]]
    /\ UNCHANGED << rows, gpu_queue, running_jobs, sched, task, handler, loop,
                    sql_cancel_from, redisVars >>

SqlJobs == 2

SqlSubmitted == Cardinality({j \in JobIds : rows[j] # NoRow})

NextSql ==
    \/ /\ SqlSubmitted < SqlJobs
       /\ \E g \in Gpus : sql_create_job_commit(g)
    \/ sql_create_job_add
    \/ sql_cancel_job
    \/ \E s \in Schedulers : process_queues(s)
    \/ \E j \in JobIds : start_job(j)
    \/ \E j \in JobIds : sql_container_exit(j)

SpecSql == Init /\ [][NextSql]_vars

\* ------------------------------------------------------------- vocabulary
CancelPcs ==
    {"cancel_write", "cancel_lrem", "cancel_delete_resource", "cancel_get_container",
     "cancel_stop", "cancel_remove", "cancel_delete_container"}

\* A step of the cancel_job handler (every one of its steps moves api.pc).
CancelStep == api.pc \in CancelPcs /\ api' # api

CancelInProgress(j) == api.pc \in CancelPcs /\ api.job_id = j

\* The positions of a worker between acquire_resource and release_resource.
RunnerPcs ==
    {"get_client", "no_client_write", "no_client_release", "prepare", "launch",
     "set_container", "wait", "reconcile", "remove_cancelled", "remove", "except",
     "finally_read", "finally_write", "release"}

Dispatched(w) == pc[w] \in RunnerPcs

\* Some worker holds j in an iteration of its loop.
HeldByWorker(j) == \E w \in Workers : job_id[w] = j

\* ------------------------------------------------------------------ claims

\* C1: once job:<id> has been written with status cancelled, no later write by
\* any process changes its status field.
C1_CancelledSticky ==
    [][\A j \in JobIds : job[j].status = "cancelled" => job'[j].status = "cancelled"]_vars

\* C2: no two distinct jobs that request the same resource are both between
\* acquire_resource and release_resource at the same time.
C2_OneLeasePerResource ==
    \A w1, w2 \in Workers :
        (w1 # w2 /\ Dispatched(w1) /\ Dispatched(w2) /\ job_id[w1] # job_id[w2])
            => job_data[w1].resource # job_data[w2].resource

\* C3: acquire is a set-if-absent that reports success: when resource:<r>
\* already names a job, an acquire step leaves the holder unchanged and the
\* scheduler pushes the job back instead of entering run_training_job.
C3_AcquireSetIfAbsent ==
    [][\A w \in Workers :
          (pc[w] = "acquire" /\ pc'[w] # "acquire"
             /\ resource[job_data[w].resource] # None)
          => (resource' = resource /\ pc'[w] = "requeue")]_vars

\* C4: every write of a terminal status by run_training_job is preceded in the
\* same invocation by a read of the record that found a status other than
\* cancelled.
C4_TerminalWriteAfterRead ==
    [][\A w \in Workers :
          (pc[w] \in {"no_client_write", "finally_write"} /\ pc'[w] # pc[w])
          => (current_job[w] # NoJob /\ current_job[w].status # "cancelled")]_vars

\* C5: once a job's stored status is completed or failed it never changes.
C5_TerminalNeverReverts ==
    [][\A j \in JobIds :
          job[j].status \in {"completed", "failed"} => job'[j].status = job[j].status]_vars

\* C6: no step of cancel_job removes the lease of a job other than the one
\* being cancelled (the consequence the claim draws from "cancel leaves every
\* resource:<r> key unchanged").
C6_CancelKeepsLeases ==
    [][CancelStep =>
          \A r \in Resources :
              (resource[r] # None /\ resource[r] # api.job_id) => resource'[r] = resource[r]]_vars

\* C7: each job whose stored status is running holds the lease of its resource.
C7_RunningHoldsLease ==
    \A j \in JobIds :
        job[j].status = "running" => resource[job[j].resource] = j

\* C8: each job whose stored status is running has container:<id> set.
C8_RunningHasContainer ==
    \A j \in JobIds : job[j].status = "running" => container[j] # None

\* C9: a cancel_job call that read status pending and has returned is followed
\* by no acquire_resource and no container launch for that job, and once no
\* worker holds the job it is cancelled and not in queue:pending.
CancelReturned(j, from) == cancel_from[j] = from /\ ~CancelInProgress(j)

C9_CancelPending ==
    /\ [](\A j \in JobIds :
            (CancelReturned(j, "pending") /\ ~HeldByWorker(j))
                => (job[j].status = "cancelled" /\ ~InQueue(j)))
    /\ [][\A w \in Workers :
            (job_id[w] \in JobIds /\ CancelReturned(job_id[w], "pending"))
                => /\ ~(pc[w] = "acquire" /\ pc'[w] = "get_client")
                   /\ ~(pc[w] = "launch" /\ pc'[w] = "set_container")]_vars

\* C10: after a cancel_job call that read status running has returned and the
\* job's runner has returned, the status is cancelled, container:<id> is
\* absent and the job holds no lease.
C10_CancelRunning ==
    \A j \in JobIds :
        (CancelReturned(j, "running") /\ ~HeldByWorker(j))
            => /\ job[j].status = "cancelled"
               /\ container[j] = None
               /\ resource[job[j].resource] # j


TerminalStatuses == {"completed", "failed", "cancelled"}

\* C11: cancel_job called for a job whose stored status is cancelled,
\* completed or failed does not pass the status check: no step of the handler
\* follows, so the record, queue:pending, the leases and container:<id> stay
\* as they were, and a second cancel leaves the store as the first left it.
C11_CancelTerminalRejected ==
    [][\A j \in JobIds :
          (api.pc = "idle" /\ job[j].status \in TerminalStatuses)
              => ~(api'.pc \in CancelPcs /\ api'.job_id = j)]_vars

\* C11 witness: a cancel of j was accepted and has returned, j is stored as
\* cancelled, and the API is free to take the second cancel.
C11_Witness ==
    \E j \in JobIds :
        /\ api.pc = "idle"
        /\ cancel_from[j] # "none"
        /\ job[j].status = "cancelled"
        /\ ENABLED cancel_job_reject(j)

C13_RequeueAtTail ==
    [][\A w \in Workers :
          (pc[w] = "requeue" /\ pc'[w] = "pop" /\ queue # << >>)
              => rpop_value(queue') # job_id[w]]_vars

\* j waits in queue:pending with a pending record and the lease of its resource
\* is free.
ReadyInQueue(j) ==
    /\ InQueue(j)
    /\ job[j].status = "pending"
    /\ resource[job[j].resource] = None

\* j has left the queue for good (its record is no longer pending) or its
\* resource has been taken.
DispatchedOrBusy(j) ==
    /\ job[j] # NoJob
    /\ \/ job[j].status # "pending"
       \/ resource[job[j].resource] # None

\* C14: under fair scheduling of the workers, with a worker that keeps polling
\* the queue, a pending job in queue:pending whose resource is free is
\* eventually dispatched (or its resource is taken), even when the job ahead of
\* it waits for a resource that stays busy.
C14_FreeResourceDispatched ==
    ([]<>(\E w \in Workers : pc[w] = "pop"))
        => \A j \in JobIds : ReadyInQueue(j) ~> DispatchedOrBusy(j)

\* j is stored as running, no worker is in an iteration for it and its
\* container is not running.
Orphaned(j) ==
    /\ job[j].status = "running"
    /\ ~HeldByWorker(j)
    /\ docker[j].state # "running"

\* C15: once every worker has been started (again) and has entered its loop, no
\* job is left stored as running without a running container and without a
\* worker: such a job has been marked failed.
C15_RestartReconciles ==
    (\A w \in Workers : pc[w] # "start")
        => \A j \in JobIds : ~Orphaned(j)

\* C20: every job stored as pending is in queue:pending, or is held by a
\* submit that has not pushed it yet or by an iteration of a worker's loop.
C20_PendingReachable ==
    \A j \in JobIds :
        job[j].status = "pending"
            => \/ InQueue(j)
               \/ HeldByWorker(j)
               \/ (api.pc = "create_push" /\ api.job_id = j)

\* C16: every step by which a worker leaves run_training_job, whatever the
\* outcome, deletes the lease key of the job's resource: the key is absent
\* when the runner has returned.
C16_RunnerReleases ==
    [][\A w \in Workers :
          (Dispatched(w) /\ pc'[w] = "pop")
              => resource'[job[job_id[w]].resource] = None]_vars

\* C16 witness: a runner that ended in its except clause has returned and the
\* lease of the job's resource is absent.
C16_Witness ==
    \E j \in JobIds :
        /\ job[j].status = "failed" /\ job[j].error = "exception"
        /\ ~HeldByWorker(j)
        /\ resource[job[j].resource] = None

\* j was never the subject of an accepted cancel_job.
NeverCancelled(j) == cancel_from[j] = "none"

\* The container of j has ended with exit code c.
Exited(j, c) == docker[j].state \in {"exited", "removed"} /\ docker[j].code = c

\* C17: for a job that is never cancelled and whose container exits with code
\* 0, the stored status goes pending, running, completed and nothing else;
\* when its runner has returned the record is completed with started_at and
\* completed_at set, and the runner's return leaves the lease key absent.
C17_CompletedLifecycle ==
    /\ [](\A j \in JobIds :
            (NeverCancelled(j) /\ Exited(j, 0) /\ ~HeldByWorker(j))
                => /\ job[j].status = "completed"
                   /\ job[j].started_at = "now"
                   /\ job[j].completed_at = "now"
                   /\ job[j].error = "None")
    /\ [][\A j \in JobIds :
            (NeverCancelled(j) /\ Exited(j, 0))'
                => /\ job'[j].status # job[j].status
                      => << job[j].status, job'[j].status >>
                            \in {<< "pending", "running" >>, << "running", "completed" >>}
                   /\ (\E w \in Workers :
                          job_id[w] = j /\ Dispatched(w) /\ pc'[w] = "pop")
                      => resource'[job[j].resource] = None]_vars

\* C17 witness: a never-cancelled job whose container exited with code 0 and
\* was removed by its runner, which has returned.
C17_Witness ==
    \E j \in JobIds :
        /\ NeverCancelled(j) /\ docker[j] = Removed(0) /\ ~HeldByWorker(j)
        /\ job[j].status = "completed"

\* C18: after a never-cancelled job has reached completed or failed and its
\* runner has returned, the key container:<job_id> is absent.
C18_ContainerKeyAbsent ==
    \A j \in JobIds :
        (NeverCancelled(j) /\ job[j].status \in {"completed", "failed"}
           /\ ~HeldByWorker(j))
            => container[j] = None

\* C19: for a never-cancelled job whose container exits with a code other than
\* 0 (here 2), once its runner has returned the record is failed with error
\* 'Container exited with code 2' and completed_at set, and the lease of its
\* resource is not held by the job.
C19_FailedOnExitCode ==
    \A j \in JobIds :
        (NeverCancelled(j) /\ Exited(j, 2) /\ ~HeldByWorker(j))
            => /\ job[j].status = "failed"
               /\ job[j].error = "Container exited with code 2"
               /\ job[j].completed_at = "now"
               /\ resource[job[j].resource] # j

\* C19 witness: a never-cancelled job whose container exited with code 2 and
\* whose runner has returned.
C19_Witness ==
    \E j \in JobIds :
        /\ NeverCancelled(j) /\ docker[j] = Removed(2) /\ ~HeldByWorker(j)
        /\ job[j].status = "failed"

\* C21: whenever no cancel_job call is in progress, every id in queue:pending
\* belongs to a job whose stored status is pending.
C21_QueuedIsPending ==
    api.pc \notin CancelPcs
        => \A i \in 1 .. Len(queue) : job[queue[i]].status = "pending"

\* The edges of the job state machine.
LifecycleEdges ==
    {<< "pending", "running" >>, << "pending", "cancelled" >>,
     << "running", "completed" >>, << "running", "failed" >>,
     << "running", "cancelled" >>}

\* C22: every change of the stored status of an existing job follows an edge
\* of the job state machine.
C22_StatusFollowsEdges ==
    [][\A j \in JobIds :
          (job[j] # NoJob /\ job'[j].status # job[j].status)
              => << job[j].status, job'[j].status >> \in LifecycleEdges]_vars

\* C24: ids are handed out in the order of the submits.  With no id requeued
\* or cancelled, when the worker pops Y every job submitted before Y has been
\* popped already: lpush at submit and rpop at the worker are first-in
\* first-out.
C24_Fifo ==
    /\ [](pc[DispatchWorker] # "requeue")
    /\ [][(pc[DispatchWorker] = "pop" /\ pc'[DispatchWorker] = "load")
            => \A x \in JobIds :
                  (x < job_id'[DispatchWorker] /\ job[x] # NoJob) => ~InQueue(x)]_vars

\* C24 witness: the worker has popped the first of three submitted jobs while
\* the two submitted after it wait in queue:pending.
C24_Witness ==
    /\ pc[DispatchWorker] = "load" /\ job_id[DispatchWorker] = 1
    /\ Len(queue) = 2

\* The runner of w is past its except clause, or past the reconcile step, with
\* the cancelled record it read there in job_data.
SawCancelled(w) ==
    /\ pc[w] \in {"remove_cancelled", "finally_read", "finally_write", "release"}
    /\ job_data[w].status = "cancelled"

\* C26: the except clause of run_training_job takes a cancelled record as it
\* is and otherwise marks job_data failed with the exception message; a record
\* found cancelled is not changed until the runner returns; and for a job that
\* is never cancelled the runner that went through the except clause returns
\* with the record stored as failed, the message in error and completed_at set.
C26_ExceptionFailsUnlessCancelled ==
    /\ [][\A w \in Workers :
            (pc[w] = "except" /\ pc'[w] # "except")
                => IF job[job_id[w]].status = "cancelled"
                   THEN job_data'[w] = job[job_id[w]] /\ UNCHANGED job
                   ELSE job_data'[w].status = "failed"
                        /\ job_data'[w].error = "exception"]_vars
    /\ [][\A w \in Workers :
            SawCancelled(w) => job'[job_id[w]] = job[job_id[w]]]_vars
    /\ [](\A w \in Workers :
            (pc[w] = "release" /\ job_data[w].error = "exception"
               /\ NeverCancelled(job_id[w]))
                => /\ job[job_id[w]].status = "failed"
                   /\ job[job_id[w]].error = "exception"
                   /\ job[job_id[w]].completed_at = "now")

\* C26 witness: extraction or launch raised for a job that was stored as
\* cancelled; no container was launched and the runner is about to return.
C26_Witness ==
    \E w \in Workers :
        /\ pc[w] = "release" /\ job_data[w].status = "cancelled"
        /\ docker[job_id[w]].state = "none"

\* The submit of j has returned.
SubmitReturned(j) == job[j] # NoJob /\ ~(api.pc = "create_push" /\ api.job_id = j)

C27_NoClientFailsFast ==
    \A j \in JobIds :
        (job[j] # NoJob /\ job[j].status # "pending" /\ ~HeldByWorker(j))
            => /\ job[j].status = "failed"
               /\ job[j].error = "Docker client not available"
               /\ job[j].completed_at = "now"
               /\ docker[j] = NoContainer
               /\ resource[job[j].resource] # j

\* C28: every job stored as completed, failed or cancelled has completed_at set.
C28_TerminalHasCompletedAt ==
    \A j \in JobIds :
        job[j].status \in TerminalStatuses => job[j].completed_at = "now"

\* C28 witness: one job ended cancelled and another ended failed on the
\* no-client path.
C28_Witness ==
    \E j, k \in JobIds :
        /\ job[j].status = "cancelled"
        /\ job[k].status = "failed" /\ job[k].error = "Docker client not available"

\* C29: a worker that has popped an id for which no job record exists drops
\* it: the iteration ends with the store unchanged (no lease acquired, no
\* record created) and the worker is back at the rpop, where it pops whatever
\* id waits in queue:pending.
C29_MissingRecordDropped ==
    /\ [][\A w \in Workers :
            (pc[w] = "load" /\ pc'[w] # "load" /\ job[job_id[w]] = NoJob)
                => /\ pc'[w] = "pop" /\ job_id'[w] = None
                   /\ UNCHANGED storeVars]_vars
    /\ [](\A w \in Workers :
            (pc[w] = "pop" /\ queue # << >>) => ENABLED process_pop(w))

\* C29 witness: the id of job 1, which has no record, was popped and dropped,
\* and the worker has popped the id that waited behind it.
C29_Witness ==
    /\ job[1] = NoJob
    /\ pc[DispatchWorker] = "load" /\ job_id[DispatchWorker] = 3
    /\ queue = << >>

\* A worker takes the step that calls release_resource (lines 142 and 414).
ReleaseStep(w) == pc[w] \in {"no_client_release", "release"} /\ pc'[w] = "pop"

\* C30: a release of a resource on which no lease is held changes nothing in
\* the store, and releasing again after a release gives the store the first
\* release left.
C30_ReleaseIdempotent ==
    [][\A w \in Workers : \A r \in Resources :
          (ReleaseStep(w) /\ r = job_data[w].resource)
              => /\ resource[r] = None => UNCHANGED storeVars
                 /\ release_resource(r)' = resource']_vars

\* C30 witness: a worker is about to release a resource whose lease key is
\* already absent.
C30_Witness ==
    \E w \in Workers :
        pc[w] = "release" /\ resource[job_data[w].resource] = None

\* C34: a runner whose job was cancelled while running, the cancel having
\* deleted its lease, removes no lease another job acquired since: at its
\* release step the key resource:<r> is absent or names the runner's job.
C34_ReleasesOwnLease ==
    [][\A w \in Workers :
          (ReleaseStep(w) /\ job_id[w] \in JobIds
             /\ CancelReturned(job_id[w], "running"))
              => resource[job_data[w].resource] \in {None, job_id[w]}]_vars

\* C35: once a cancel_job call that read status running has returned, the
\* job's container is not running: it was stopped or is never started.
C35_CancelStopsWorkload ==
    \A j \in JobIds : CancelReturned(j, "running") => docker[j].state # "running"

\* The number of places of queue:pending that hold id j.
Occurrences(j) == Cardinality({i \in 1 .. Len(queue) : queue[i] = j})

\* C36: each job id occurs at most once in queue:pending, and
\* run_training_job is invoked at most once per job.
C36_QueuedOnceRunOnce ==
    \A j \in JobIds : Occurrences(j) <= 1 /\ runs[j] <= 1

\* C36 witness: two workers have run both submitted jobs, each once.
C36_Witness ==
    /\ \A j \in 1 .. SpecJobs : runs[j] = 1
    /\ \A w \in Workers : pc[w] = "pop"

\* C39: every id in queue:pending has an existing job:<id> record, and a
\* job:<id> record, once written, is never deleted.
C39_QueuedHasRecord ==
    /\ [](\A i \in 1 .. Len(queue) : job[queue[i]] # NoJob)
    /\ [][\A j \in JobIds : job[j] # NoJob => job'[j] # NoJob]_vars

\* C39 witness: both submitted ids are queued, the second submit has returned.
C39_Witness ==
    /\ Len(queue) = SpecJobs
    /\ api.pc = "idle"

\* C37: while every ping fails no client is left cached in the global
\* docker_client and no call of get_docker_client returns one: the global
\* stays None and no runner passes the test of line 137.
C37_NoUnpingedClient ==
    \A w \in Workers : docker_client[w] = "None" /\ pc[w] # "prepare"

\* The log stream of job j has ended and the job's runner has returned, so
\* output.log has its final content.
StreamEnded(j) ==
    /\ stream.pc = "done"
    /\ stream.job_id = j
    /\ ~HeldByWorker(j)

\* C38: the chunks emitted by stream_job_logs never repeat a byte, and when
\* the stream of a job has ended and the job's runner has returned, their
\* concatenation is the content of output.log.
C38_StreamEqualsLog ==
    /\ stream.emitted = Bytes(0, Len(stream.emitted))
    /\ \A j \in JobIds :
          StreamEnded(j) => stream.emitted = Bytes(0, output_log[j])

\* A cancel_job call of the SQL-backed API that read the status from for job
\* j has returned.
SqlCancelReturned(j, from) ==
    /\ sql_cancel_from[j] = from
    /\ ~(handler.pc \in {"stop", "remove_job", "commit"} /\ handler.job_id = j)

\* start_job has begun for job j and has not returned.
BeingRun(j) == task[j].pc \in {"run_job", "set_container", "wait", "final", "except"}

\* C31: in the SQL-backed implementation a job cancelled while running ends
\* cancelled: once cancel_job, having stopped the job's container, has
\* returned and start_job, having written the status after
\* wait_for_completion returned, has returned too, the stored status is
\* cancelled.
C31_SqlCancelledStays ==
    \A j \in JobIds :
        (/\ SqlCancelReturned(j, "running")
         /\ engine[j] = Removed(KilledCode)
         /\ task[j].pc = "done"
         /\ task[j].result # "none")
            => rows[j].status = "cancelled"

\* C32: in the SQL-backed implementation at most one job per GPU is being run
\* at any time, over the start_job tasks of both schedulers.
C32_SqlOneJobPerGpu ==
    \A g \in Gpus :
        Cardinality({j \in JobIds : BeingRun(j) /\ task[j].gpu = g}) <= 1

\* C33: in the SQL-backed implementation every cancelled job has completed_at
\* set.
C33_SqlCancelledHasCompletedAt ==
    \A j \in JobIds :
        rows[j].status = "cancelled" => rows[j].completed_at # "None"

====
